---------------------------- MODULE Spec2Model ----------------------------
(***************************************************************************)
(* Model of the pubmed-rna-digest pipeline: scripts/run_all.py drives      *)
(* scripts/fetch_papers.py (ingest-and-select), scripts/summarize.py and   *)
(* scripts/generate_pages.py over three kinds of durable files:            *)
(*   data/seen_ids.json      the Identity Ledger                           *)
(*   data/scores.json        the Score Cache                               *)
(*   data/papers/<date>.json one Daily Snapshot per calendar date          *)
(* A file is "absent", "ok" (holds what the last completed json.dump wrote)*)
(* or "torn" (open(path, "w") truncated it and the dump did not complete,  *)
(* so its text does not parse).                                            *)
(***************************************************************************)
EXTENDS Integers, Sequences, FiniteSets, TLC

(* ------------------------------ bounds -------------------------------- *)
MaxId == 2          \* identifiers are 1..MaxId
MaxPapers == 2      \* records returned by one efetch round trip
MaxDay == 2         \* calendar dates are 1..MaxDay
MaxQuota == 2       \* largest configured max_papers_per_day
MaxRuns == 2        \* scheduled invocations of run_all.py
SelMaxId == 3       \* identifiers 1..SelMaxId when the Selector is checked alone
SelMaxLen == 3      \* candidates handed to the Selector when checked alone
MaxText == 5        \* tokens of an oracle response when the adapter is checked alone
FilterMaxLen == 3   \* records handed to filter_recent when it is checked alone
SumMaxLen == 2      \* records of the snapshot summarize.py is started on

(* ------------------------- program constants -------------------------- *)
WindowDays == 30    \* filter_recent(papers, days=30)
ScoreMin == 0       \* max(0, ...)
ScoreMax == 100     \* min(100, score)

Ids == 1..MaxId
NoId == 0           \* a record whose "id" is the empty string
Days == 1..MaxDay
NoScore == -1       \* a record without a "score" key
None == -1000       \* Python's None as returned by score_with_deepseek
BadDate == -999     \* a "published" string strptime rejects ("" included)
BadValue == -2000   \* a "score" value int() rejects (null, "high", a list)

QuotaChoices == 0..MaxQuota
RawScores == {-5, 150}                     \* scores the oracle may write

(* The text of an oracle response, resp.choices[0].message.content, as a   *)
(* sequence of tokens: a brace, a "score": v member, a code fence, the     *)
(* "json" tag line that may follow a fence, or prose without braces.       *)
Tok(k, v) == [k |-> k, v |-> v]
LB == Tok("{", 0)
RB == Tok("}", 0)
Member(v) == Tok("score", v)
Fence == Tok("fence", 0)
JsonTag == Tok("json", 0)
Prose == Tok("text", 0)
Tokens == {LB, RB, Fence, JsonTag, Prose} \cup {Member(v) : v \in RawScores \cup {BadValue}}

(* what client.chat.completions.create gives: it raises (or the message    *)
(* has no content), or it returns a text                                   *)
CallFailed == [ok |-> FALSE, content |-> <<>>]
Content(text) == [ok |-> TRUE, content |-> text]

(* the replies of the oracle in the runs of the pipeline: a failed call, a *)
(* bare object with a score below or above the scale, an object without a  *)
(* score field                                                             *)
OracleReplies ==
    {CallFailed, Content(<<LB, RB>>)} \cup {Content(<<LB, Member(v), RB>>) : v \in RawScores}

VARIABLES
    seen_ids,       \* data/seen_ids.json: [st, ids]
    scores_json,    \* data/scores.json:   [st, map]
    snapshots,      \* data/papers/<d>.json for each date d: [st, papers]
    today,          \* the calendar date datetime.now() gives
    stage,          \* run_all: "idle", "fetch", "summarize", "generate"
    pc,             \* position inside the running script
    outcome,        \* how the last run ended: "none", "ok", "failed", "crashed"
    driver,         \* the script the scheduler started: "fetch_papers", "run_all"
    runs,           \* how many runs the scheduler has started
    apiKey,         \* DEEPSEEK_API_KEY is set in the environment
    limit,          \* config.yaml: max_papers_per_day
    fetched,        \* main: papers, what efetch_pubmed returned
    recent,         \* main: recent
    scores,         \* main: scores
    seen,           \* main: seen
    i,              \* loop index of the scoring / summarizing loop
    new_scores,     \* main: new_scores
    today_papers,   \* main: today_papers; process_papers: papers
    new_seen,       \* main: new_seen
    pre,            \* history: the durable files when the run started
    loaded,         \* history: every identifier some load_seen_ids() returned
    firstScore,     \* history: the first value persisted for each cache key
    calls,          \* history: the oracle calls of this run, in order: [id, reply]
    prev,           \* history: the run before this one: [ran, recent, unscored]
    sumlog          \* history: what the last process_papers loop read, asked and wrote

durable == <<seen_ids, scores_json, snapshots>>
locals == <<fetched, recent, scores, seen, i, new_scores, today_papers, new_seen>>
history == <<pre, loaded, firstScore, calls, prev, sumlog>>
vars == <<seen_ids, scores_json, snapshots, today, stage, pc, outcome, driver, runs, apiKey,
          limit, fetched, recent, scores, seen, i, new_scores, today_papers,
          new_seen,
          pre, loaded, firstScore, calls, prev, sumlog>>

(* ------------------------------ helpers ------------------------------- *)
EmptyMap == [x \in {} |-> 0]

Paper(id, published) ==
    [id |-> id, published |-> published, score |-> NoScore, summary |-> FALSE]

RECURSIVE SeqsUpTo(_, _)
SeqsUpTo(S, n) ==
    IF n = 0 THEN {<<>>}
    ELSE LET shorter == SeqsUpTo(S, n - 1)
         IN shorter \cup {Append(s, x) : s \in {t \in shorter : Len(t) = n - 1}, x \in S}

IdsOf(papers) == {papers[k].id : k \in 1..Len(papers)}

(* a sort that is descending by key but reverses records with equal keys   *)
SortedDesc_TiesReversed(xs, keys) ==
    LET n == Len(xs)
        Before(b, a) == \/ keys[b] > keys[a]
                        \/ keys[b] = keys[a] /\ b > a
        Pos(a) == 1 + Cardinality({b \in 1..n : Before(b, a)})
    IN [k \in 1..n |-> xs[CHOOSE a \in 1..n : Pos(a) = k]]

(* sorted(xs, key=..., reverse=True), keys[k] being the key of xs[k]:      *)
(* descending by key, and stable, so records with equal keys keep their    *)
(* order in xs.                                                            *)
SortedDesc(xs, keys) ==
    LET n == Len(xs)
        Before(b, a) == \/ keys[b] > keys[a]
                        \/ keys[b] = keys[a] /\ b < a
        Pos(a) == 1 + Cardinality({b \in 1..n : Before(b, a)})
    IN [k \in 1..n |-> xs[CHOOSE a \in 1..n : Pos(a) = k]]

(* ------------------- fetch_papers.py: pure functions ------------------- *)

(* filter_recent, lines 137-153. A published date is a day number; now is  *)
(* the run's date. strptime failing drops the record (lines 144-147), a    *)
(* date before now - days drops it (148-149); nothing compares it to now.  *)
filter_recent(papers, days, now) ==
    LET threshold == now - days
        Keep(p) == p.published # BadDate /\ ~(p.published < threshold)
        filtered == SelectSeq(papers, Keep)
    IN SortedDesc(filtered, [k \in 1..Len(filtered) |-> filtered[k].published])

(* load_seen_ids, lines 156-167: absent -> set(); unparseable or not a     *)
(* list -> set() as well (the except branch and the final return).         *)
load_seen_ids(file) ==
    IF file.st = "ok" THEN file.ids ELSE {}

(* load_scores, lines 191-202, likewise with {}.                           *)
load_scores(file) ==
    IF file.st = "ok" THEN file.map ELSE EmptyMap

(* select_unseen, lines 177-188: the loop from record k on.                *)
RECURSIVE SelectWalk(_, _, _, _, _, _)
SelectWalk(papers, k, seenSet, lim, selected, newSeen) ==
    IF k > Len(papers) THEN [selected |-> selected, new_seen |-> newSeen]
    ELSE LET pid == papers[k].id IN
         IF pid = NoId \/ pid \in seenSet
         THEN SelectWalk(papers, k + 1, seenSet, lim, selected, newSeen)
         ELSE LET sel == Append(selected, papers[k])
                  ns == newSeen \cup {pid}
              IN IF Len(sel) >= lim
                 THEN [selected |-> sel, new_seen |-> ns]
                 ELSE SelectWalk(papers, k + 1, seenSet, lim, sel, ns)

(* select_unseen without the "pid in seen" test of line 182 *)
select_unseen_IgnoresLedger(papers, seenSet, lim) ==
    SelectWalk(papers, 1, {}, lim, <<>>, {})

(* select_unseen with new_seen.add(pid) moved above the test of line 182 *)
select_unseen_RecordsSkipped(papers, seenSet, lim) ==
    [selected |-> SelectWalk(papers, 1, seenSet, lim, <<>>, {}).selected,
     new_seen |-> IdsOf(papers) \ {NoId}]

(* select_unseen cutting the list at the quota before it drops the        *)
(* identifiers of the ledger *)
select_unseen_SeenUsesQuota(papers, seenSet, lim) ==
    LET w == SelectWalk(papers, 1, {}, lim, <<>>, {})
        Unseen(p) == p.id \notin seenSet
    IN [selected |-> SelectSeq(w.selected, Unseen),
        new_seen |-> w.new_seen \ seenSet]

(* select_unseen without new_seen.add(pid) of line 185 *)
select_unseen_ForgetsNewSeen(papers, seenSet, lim) ==
    [selected |-> SelectWalk(papers, 1, seenSet, lim, <<>>, {}).selected,
     new_seen |-> {}]

select_unseen(papers, seenSet, lim) ==
    SelectWalk(papers, 1, seenSet, lim, <<>>, {})

(* score_with_deepseek, lines 272-279: a content that starts with a fence  *)
(* is cut to what stands between that fence and the next one (or the end), *)
(* and a leading "json" tag line is dropped.                               *)
IndexOf(text, tok, from) ==
    LET hits == {k \in from..Len(text) : text[k] = tok}
    IN IF hits = {} THEN 0 ELSE CHOOSE k \in hits : \A h \in hits : k <= h

LastIndexOf(text, tok) ==
    LET hits == {k \in 1..Len(text) : text[k] = tok}
    IN IF hits = {} THEN 0 ELSE CHOOSE k \in hits : \A h \in hits : k >= h

StripFence(text) ==
    IF text # <<>> /\ text[1] = Fence
    THEN LET close == IndexOf(text, Fence, 2)
             part == IF close = 0 THEN SubSeq(text, 2, Len(text))
                                  ELSE SubSeq(text, 2, close - 1)
         IN IF part # <<>> /\ part[1] = JsonTag THEN Tail(part) ELSE part
    ELSE text

(* lines 282-287: from the first "{" to the last "}" when both exist and   *)
(* the "}" comes later, else the whole content                             *)
ExtractJson(text) ==
    LET start == IndexOf(text, LB, 1)
        end == LastIndexOf(text, RB)
    IN IF start # 0 /\ end # 0 /\ end > start THEN SubSeq(text, start, end)
       ELSE text

(* json.loads, line 289, accepts (as something with a .get) exactly one    *)
(* object: a "{", members, a "}"                                           *)
IsObject(text) ==
    /\ Len(text) >= 2
    /\ text[1] = LB
    /\ text[Len(text)] = RB
    /\ \A k \in 2..(Len(text) - 1) : text[k].k = "score"

(* data.get("score", 0), line 290: the last "score" member, 0 without one  *)
ScoreField(obj) ==
    IF Len(obj) = 2 THEN 0 ELSE obj[Len(obj) - 1].v

(* line 291 without the min(100, ...) *)
Clamp_NoUpper(score) ==
    IF score < ScoreMin THEN ScoreMin ELSE score

(* line 291 *)
Clamp(score) ==
    IF score < ScoreMin THEN ScoreMin
    ELSE IF score > ScoreMax THEN ScoreMax ELSE score

(* score_with_deepseek, lines 263-295: the clamped score, or None when the *)
(* call, json.loads or int() raised                                        *)
score_with_deepseek(reply) ==
    IF ~reply.ok THEN None
    ELSE LET json_str == ExtractJson(StripFence(reply.content))
         IN IF ~IsObject(json_str) THEN None
            ELSE IF ScoreField(json_str) = BadValue THEN None
            ELSE Clamp(ScoreField(json_str))

(* summarize_paper, summarize.py lines 59-91: the same fence stripping and *)
(* brace slicing, then json.loads: the parsed object, or None when the     *)
(* call or json.loads raised. "empty" is an object without members, which  *)
(* Python takes for false.                                                 *)
summarize_paper(reply) ==
    IF ~reply.ok THEN "None"
    ELSE LET json_str == ExtractJson(StripFence(reply.content))
         IN IF ~IsObject(json_str) THEN "None"
            ELSE IF Len(json_str) = 2 THEN "empty" ELSE "object"

(* what the summarization oracle may do: fail, or answer with an object    *)
(* without members, a bare object, a fenced object, or prose               *)
SummaryReplies ==
    {CallFailed, Content(<<LB, RB>>), Content(<<LB, Member(ScoreMax), RB>>),
     Content(<<Fence, JsonTag, LB, Member(ScoreMax), RB, Fence>>), Content(<<Prose>>)}

(* process_papers passing over no record at all *)
SkipSummarized_Never(paper) ==
    FALSE

(* process_papers, summarize.py line 106: if paper.get("summary") *)
SkipSummarized(paper) ==
    paper.summary

(* process_papers attaching whatever summarize_paper returned *)
AttachSummary_Always(paper, summary) ==
    [paper EXCEPT !.summary = TRUE]

(* process_papers, summarize.py lines 111-112: if summary: paper["summary"] *)
AttachSummary(paper, summary) ==
    IF summary = "object" THEN [paper EXCEPT !.summary = TRUE] ELSE paper

(* main.paper_score, lines 349-353 *)
paper_score(p, cache) ==
    IF p.id \in DOMAIN cache THEN cache[p.id] ELSE 0

(* main, line 355 *)
Ranked(papers, cache) ==
    SortedDesc(papers, [k \in 1..Len(papers) |-> paper_score(papers[k], cache)])

(* main, lines 361-364: attach the cached score to each selected record    *)
AttachScores(papers, cache) ==
    [k \in 1..Len(papers) |->
        IF papers[k].id \in DOMAIN cache
        THEN [papers[k] EXCEPT !.score = cache[papers[k].id]]
        ELSE papers[k]]

(* main, line 335: the scoring loop passes over a record without an id or  *)
(* with a cached score.                                                    *)
(* the loop also passing over the identifiers of the ledger *)
SkipScoring_LedgerToo(pid, cache) ==
    pid = NoId \/ pid \in DOMAIN cache \/ pid \in seen

(* the loop without the "pid in scores" test *)
SkipScoring_OnlyMissingId(pid, cache) ==
    pid = NoId

SkipScoring(pid, cache) ==
    pid = NoId \/ pid \in DOMAIN cache

(* the scoring loop giving up at the first call that returns None *)
RECURSIVE ScoringPass_StopsAtFailure(_, _, _, _)
ScoringPass_StopsAtFailure(papers, k, cache, oracle) ==
    IF k > Len(papers) THEN cache
    ELSE LET pid == papers[k].id IN
         IF SkipScoring(pid, cache)
         THEN ScoringPass_StopsAtFailure(papers, k + 1, cache, oracle)
         ELSE LET s == score_with_deepseek(oracle[pid]) IN
              IF s = None THEN cache
              ELSE ScoringPass_StopsAtFailure(papers, k + 1,
                       [x \in DOMAIN cache \cup {pid} |->
                           IF x = pid THEN s ELSE cache[x]], oracle)

(* main, lines 333-340, from record k on: the whole scoring loop over      *)
(* papers, the oracle answering oracle[pid] for the record with identifier *)
(* pid; the value is scores when the loop is over                          *)
RECURSIVE ScoringPass(_, _, _, _)
ScoringPass(papers, k, cache, oracle) ==
    IF k > Len(papers) THEN cache
    ELSE LET pid == papers[k].id IN
         IF SkipScoring(pid, cache)
         THEN ScoringPass(papers, k + 1, cache, oracle)
         ELSE LET s == score_with_deepseek(oracle[pid]) IN
              IF s = None
              THEN ScoringPass(papers, k + 1, cache, oracle)
              ELSE ScoringPass(papers, k + 1,
                       [x \in DOMAIN cache \cup {pid} |->
                           IF x = pid THEN s ELSE cache[x]], oracle)

(* main saving new_seen instead of seen.union(new_seen) *)
UpdatedSeen_OnlyNew(seenSet, newSeen) ==
    newSeen

(* main, line 370 *)
UpdatedSeen(seenSet, newSeen) ==
    seenSet \cup newSeen

(* what efetch_pubmed can return, lines 70-132: up to MaxPapers records,   *)
(* each with an identifier (possibly empty) and a published date that is   *)
(* today's or older than the window.                                       *)
PubChoices(now) == {now, now - WindowDays - 1}

Fetched(now) ==
    SeqsUpTo({Paper(id, d) : id \in Ids \cup {NoId}, d \in PubChoices(now)}, MaxPapers)

(* ------------------------------ files --------------------------------- *)
AbsentSeen == [st |-> "absent", ids |-> {}]
AbsentScores == [st |-> "absent", map |-> EmptyMap]
AbsentSnapshot == [st |-> "absent", papers |-> <<>>]

(* open(path, "w") truncates the file: until json.dump has written the     *)
(* whole text and the file is closed, the file does not parse.             *)
TornSeen == [st |-> "torn", ids |-> {}]
TornScores == [st |-> "torn", map |-> EmptyMap]
TornSnapshot == [st |-> "torn", papers |-> <<>>]

(* no run of the ingest-and-select stage completed just before this one *)
NoPrev == [ran |-> FALSE, recent |-> <<>>, unscored |-> {}]

(* no process_papers loop has run yet *)
NoSumLog ==
    [date |-> 0, before |-> <<>>, asked |-> <<>>, failed |-> {}, wrote |-> FALSE,
     after |-> <<>>, retry |-> {}]

(* what a run of the ingest-and-select stage that is returning leaves to   *)
(* remember: its candidates, and the identifiers it submitted to the       *)
(* oracle without getting a score                                          *)
ThisRun ==
    [ran |-> TRUE, recent |-> recent,
     unscored |-> {calls[k].id : k \in 1..Len(calls)} \ DOMAIN scores]

(* save_papers writing one file for all dates *)
save_papers_OneFile(files, records, date_str) ==
    [d \in DOMAIN files |-> [st |-> "ok", papers |-> records]]

(* save_papers, lines 298-306, once json.dump has completed: the file of   *)
(* date_str holds the records, the other files are as they were            *)
save_papers(files, records, date_str) ==
    [files EXCEPT ![date_str] = [st |-> "ok", papers |-> records]]

Durable == [seen_ids |-> seen_ids, scores_json |-> scores_json, snapshots |-> snapshots]

(* how a script's exit ends the run_all process: run(), lines 14-16; the   *)
(* processes' memory and environment are gone with them.                   *)
EndRun(how) ==
    /\ stage' = "idle"
    /\ pc' = "idle"
    /\ outcome' = how
    /\ driver' = "none"
    /\ apiKey' = FALSE
    /\ calls' = <<>>
    /\ fetched' = <<>>
    /\ recent' = <<>>
    /\ scores' = EmptyMap
    /\ seen' = {}
    /\ i' = 1
    /\ new_scores' = 0
    /\ today_papers' = <<>>
    /\ new_seen' = {}

Init ==
    /\ seen_ids = AbsentSeen
    /\ scores_json = AbsentScores
    /\ snapshots = [d \in Days |-> AbsentSnapshot]
    /\ today = 1
    /\ stage = "idle"
    /\ pc = "idle"
    /\ outcome = "none"
    /\ driver = "none"
    /\ runs = 0
    /\ apiKey = FALSE
    /\ limit \in QuotaChoices
    /\ fetched = <<>>
    /\ recent = <<>>
    /\ scores = EmptyMap
    /\ seen = {}
    /\ i = 1
    /\ new_scores = 0
    /\ today_papers = <<>>
    /\ new_seen = {}
    /\ pre = [seen_ids |-> AbsentSeen, scores_json |-> AbsentScores,
              snapshots |-> [d \in Days |-> AbsentSnapshot]]
    /\ loaded = {}
    /\ firstScore = EmptyMap
    /\ calls = <<>>
    /\ prev = NoPrev
    /\ sumlog = NoSumLog

(* --------------------------- the environment --------------------------- *)
(* The scheduler starts a script; the environment may or may not carry     *)
(* DEEPSEEK_API_KEY. Either way the first thing that runs is               *)
(* fetch_papers.py's main.                                                 *)
StartAs(script) ==
    /\ stage = "idle"
    /\ runs < MaxRuns
    /\ runs' = runs + 1
    /\ stage' = "fetch"
    /\ pc' = "fetch"
    /\ outcome' = "none"
    /\ driver' = script
    /\ \E key \in BOOLEAN : apiKey' = key
    /\ pre' = Durable
    /\ UNCHANGED <<durable, today, limit, locals, loaded, firstScore, calls,
                   prev, sumlog>>

(* python scripts/fetch_papers.py: the ingest-and-select stage on its own, *)
(* fetch_papers.py lines 377-378                                           *)
StartFetch == StartAs("fetch_papers")

(* python scripts/run_all.py: run_all.py lines 19-20 *)
StartRunAll == StartAs("run_all")

(* the calendar moves on between runs *)
NextDay ==
    /\ stage = "idle"
    /\ today < MaxDay
    /\ today' = today + 1
    /\ UNCHANGED <<durable, runs, stage, pc, outcome, driver, apiKey, limit,
                   locals, history>>

(* --------------------- fetch_papers.py: main() ------------------------- *)
(* lines 310-324: esearch, efetch returning one of the lists of inputs,    *)
(* filter_recent                                                           *)
FetchWith(inputs) ==
    /\ stage = "fetch" /\ pc = "fetch"
    /\ \E got \in inputs :
          /\ fetched' = got
          /\ recent' = filter_recent(got, WindowDays, today)
    /\ pc' = "load"
    /\ UNCHANGED <<durable, today, runs, stage, outcome, driver, apiKey, limit,
                   scores, seen, i, new_scores, today_papers, new_seen,
                   history>>

FetchCandidates == FetchWith(Fetched(today))

(* the same step, efetch returning any list of up to FilterMaxLen records  *)
(* dated around the two ends of the window or not dated at all             *)
FilterDates(now) ==
    {now - WindowDays - 1, now - WindowDays, now - 1, now, now + 1, BadDate}

FilterInputs(now) ==
    SeqsUpTo({Paper(id, d) : id \in Ids, d \in FilterDates(now)}, FilterMaxLen)

FetchAny == FetchWith(FilterInputs(today))

(* run() not looking at the return code: after a failed fetch_papers.py,   *)
(* summarize.py is started                                                 *)
FetchFails_RunGoesOn ==
    /\ stage = "fetch" /\ pc = "fetch"
    /\ stage' = "summarize"
    /\ pc' = "sum_main"
    /\ prev' = NoPrev
    /\ UNCHANGED <<durable, today, runs, outcome, driver, apiKey, limit, locals,
                   pre, loaded, firstScore, calls, sumlog>>

(* lines 43 and 64: urlopen raises, main dies with a traceback, run() exits *)
FetchFails ==
    /\ stage = "fetch" /\ pc = "fetch"
    /\ EndRun("failed")
    /\ prev' = NoPrev
    /\ UNCHANGED <<durable, today, runs, limit, pre, loaded, firstScore, sumlog>>

(* lines 326-331: load_scores, load_seen_ids, create_ds_client; the quota  *)
(* of line 328 is what config.yaml holds. Nothing reads papers after line  *)
(* 323, so the model forgets it here.                                      *)
LoadState ==
    /\ stage = "fetch" /\ pc = "load"
    /\ scores' = load_scores(scores_json)
    /\ seen' = load_seen_ids(seen_ids)
    /\ loaded' = loaded \cup load_seen_ids(seen_ids)
    /\ i' = 1
    /\ new_scores' = 0
    /\ fetched' = <<>>
    /\ pc' = IF apiKey THEN "score" ELSE "rank"
    /\ UNCHANGED <<durable, today, runs, stage, outcome, driver, apiKey, limit,
                   recent, today_papers,
                   new_seen, pre, firstScore, calls, prev, sumlog>>

(* lines 333-340: one pass of the scoring loop, the oracle answering with  *)
(* one of replies                                                          *)
ScoreWith(replies) ==
    /\ stage = "fetch" /\ pc = "score"
    /\ i <= Len(recent)
    /\ LET pid == recent[i].id IN
       IF SkipScoring(pid, scores)
       THEN UNCHANGED <<scores, new_scores, calls>>
       ELSE \E reply \in replies :
              LET s == score_with_deepseek(reply) IN
              /\ calls' = Append(calls, [id |-> pid, reply |-> reply])
              /\ IF s # None
                 THEN /\ scores' = [x \in DOMAIN scores \cup {pid} |->
                                       IF x = pid THEN s ELSE scores[x]]
                      /\ new_scores' = new_scores + 1
                 ELSE UNCHANGED <<scores, new_scores>>
    /\ i' = i + 1
    /\ UNCHANGED <<durable, today, runs, stage, pc, outcome, driver, apiKey,
                   limit, fetched, recent, seen,
                   today_papers, new_seen, pre, loaded, firstScore, prev,
                   sumlog>>

ScoreOne == ScoreWith(OracleReplies)

(* the same pass, the oracle failing or answering with any text of up to   *)
(* n tokens                                                                *)
AllReplies(n) == {CallFailed} \cup {Content(text) : text \in SeqsUpTo(Tokens, n)}

ScoreAny == ScoreWith(AllReplies(MaxText))

(* lines 341-345: the loop is over *)
ScoreEnd ==
    /\ stage = "fetch" /\ pc = "score"
    /\ i > Len(recent)
    /\ pc' = IF new_scores > 0 THEN "save_scores" ELSE "rank"
    /\ UNCHANGED <<durable, today, runs, stage, outcome, driver, apiKey, limit,
                   locals, history>>

(* save_scores, line 208: open(path, "w") *)
SaveScoresOpen ==
    /\ stage = "fetch" /\ pc = "save_scores"
    /\ scores_json' = TornScores
    /\ pc' = "dump_scores"
    /\ UNCHANGED <<seen_ids, snapshots, today, runs, stage, outcome, driver,
                   apiKey, limit, locals,
                   history>>

(* save_scores, line 209: json.dump and close *)
SaveScoresDump ==
    /\ stage = "fetch" /\ pc = "dump_scores"
    /\ scores_json' = [st |-> "ok", map |-> scores]
    /\ firstScore' = [x \in DOMAIN firstScore \cup DOMAIN scores |->
                         IF x \in DOMAIN firstScore THEN firstScore[x] ELSE scores[x]]
    /\ pc' = "rank"
    /\ UNCHANGED <<seen_ids, snapshots, today, runs, stage, outcome, driver,
                   apiKey, limit, locals,
                   pre, loaded, calls, prev, sumlog>>

(* lines 355-364: rank, select_unseen, attach the scores *)
RankSelect ==
    /\ stage = "fetch" /\ pc = "rank"
    /\ LET r == select_unseen(Ranked(recent, scores), seen, limit) IN
         /\ today_papers' = AttachScores(r.selected, scores)
         /\ new_seen' = r.new_seen
    /\ pc' = "save_papers"
    /\ UNCHANGED <<durable, today, runs, stage, outcome, driver, apiKey, limit,
                   fetched, recent, scores, seen,
                   i, new_scores, history>>

(* save_papers, line 303: open(out_path, "w") *)
SavePapersOpen ==
    /\ stage = "fetch" /\ pc = "save_papers"
    /\ snapshots' = [snapshots EXCEPT ![today] = TornSnapshot]
    /\ pc' = "dump_papers"
    /\ UNCHANGED <<seen_ids, scores_json, today, runs, stage, outcome, driver,
                   apiKey, limit, locals,
                   history>>

(* save_papers, line 304, then main, line 369 *)
SavePapersDump ==
    /\ stage = "fetch" /\ pc = "dump_papers"
    /\ snapshots' = save_papers(snapshots, today_papers, today)
    /\ pc' = IF new_seen # {} THEN "save_seen" ELSE "fetch_done"
    /\ UNCHANGED <<seen_ids, scores_json, today, runs, stage, outcome, driver,
                   apiKey, limit, locals,
                   history>>

(* save_seen_ids, line 173: open(path, "w") *)
SaveSeenOpen ==
    /\ stage = "fetch" /\ pc = "save_seen"
    /\ seen_ids' = TornSeen
    /\ pc' = "dump_seen"
    /\ UNCHANGED <<scores_json, snapshots, today, runs, stage, outcome, driver,
                   apiKey, limit, locals,
                   history>>

(* save_seen_ids, line 174: json.dump(sorted(seen)) and close *)
SaveSeenDump ==
    /\ stage = "fetch" /\ pc = "dump_seen"
    /\ seen_ids' = [st |-> "ok", ids |-> UpdatedSeen(seen, new_seen)]
    /\ pc' = "fetch_done"
    /\ UNCHANGED <<scores_json, snapshots, today, runs, stage, outcome, driver,
                   apiKey, limit, locals,
                   history>>

(* main returns, line 374, and the script started on its own exits 0 *)
FetchReturns ==
    /\ stage = "fetch" /\ pc = "fetch_done"
    /\ driver = "fetch_papers"
    /\ EndRun("ok")
    /\ prev' = ThisRun
    /\ UNCHANGED <<durable, today, runs, limit, pre, loaded, firstScore, sumlog>>

(* ---------------------------- run_all.py ------------------------------- *)
(* run(), lines 14-16, after fetch_papers.py returned 0: main, line 21 *)
FetchExit ==
    /\ stage = "fetch" /\ pc = "fetch_done"
    /\ driver = "run_all"
    /\ stage' = "summarize"
    /\ pc' = "sum_main"
    /\ prev' = ThisRun
    /\ UNCHANGED <<durable, today, runs, outcome, driver, apiKey, limit,
                   locals, pre, loaded, firstScore, calls, sumlog>>

(* ----------------------------- summarize.py ---------------------------- *)
(* python scripts/summarize.py: the summarize stage on its own, lines      *)
(* 129-130                                                                 *)
StartSummarize ==
    /\ stage = "idle"
    /\ runs < MaxRuns
    /\ runs' = runs + 1
    /\ stage' = "summarize"
    /\ pc' = "sum_main"
    /\ outcome' = "none"
    /\ driver' = "summarize"
    /\ \E key \in BOOLEAN : apiKey' = key
    /\ pre' = Durable
    /\ UNCHANGED <<durable, today, limit, locals, loaded, firstScore, calls,
                   prev, sumlog>>

(* main, lines 120-127, and process_papers up to create_client, lines      *)
(* 94-103: no file or no papers returns (exit 0); a file that does not     *)
(* parse, or a missing API key (create_client raises), exits nonzero.      *)
SummarizeBegin ==
    /\ stage = "summarize" /\ pc = "sum_main"
    /\ LET file == snapshots[today] IN
       IF file.st = "absent" \/ (file.st = "ok" /\ file.papers = <<>>)
       THEN /\ pc' = "sum_done"
            /\ UNCHANGED <<stage, outcome, driver, apiKey, locals, calls, sumlog>>
       ELSE IF file.st = "torn" \/ ~apiKey
       THEN EndRun("failed") /\ UNCHANGED sumlog
       ELSE /\ today_papers' = file.papers
            /\ i' = 1
            /\ pc' = "sum_loop"
            /\ sumlog' = [date |-> today, before |-> file.papers, asked |-> <<>>,
                          failed |-> {}, wrote |-> FALSE, after |-> <<>>,
                          retry |-> IF sumlog.wrote /\ sumlog.date = today
                                       /\ sumlog.after = file.papers
                                    THEN sumlog.failed ELSE {}]
            /\ UNCHANGED <<stage, outcome, driver, apiKey, fetched, recent, scores,
                           seen, new_scores, new_seen, calls>>
    /\ UNCHANGED <<durable, today, runs, limit, pre, loaded, firstScore, prev>>

(* process_papers, lines 105-113: one pass of the loop; summarize_paper    *)
(* returns the parsed object or None, and a falsy result attaches nothing. *)
SummarizeOne ==
    /\ stage = "summarize" /\ pc = "sum_loop"
    /\ i <= Len(today_papers)
    /\ IF SkipSummarized(today_papers[i])
       THEN UNCHANGED <<today_papers, sumlog>>
       ELSE \E reply \in SummaryReplies :
              LET summary == summarize_paper(reply)
                  paper == AttachSummary(today_papers[i], summary)
              IN /\ today_papers' = [today_papers EXCEPT ![i] = paper]
                 /\ sumlog' = [sumlog EXCEPT
                                  !.asked = Append(@, i),
                                  !.failed = IF summary = "object" THEN @
                                                                   ELSE @ \cup {i}]
    /\ i' = i + 1
    /\ UNCHANGED <<durable, today, runs, stage, pc, outcome, driver, apiKey,
                   limit, fetched, recent, scores,
                   seen, new_scores, new_seen, pre, loaded, firstScore, calls,
                   prev>>

(* process_papers, line 115: open(papers_file, "w") *)
SummarizeWriteOpen ==
    /\ stage = "summarize" /\ pc = "sum_loop"
    /\ i > Len(today_papers)
    /\ snapshots' = [snapshots EXCEPT ![today] = TornSnapshot]
    /\ pc' = "sum_dump"
    /\ UNCHANGED <<seen_ids, scores_json, today, runs, stage, outcome, driver,
                   apiKey, limit, locals,
                   history>>

(* process_papers, line 116: json.dump and close *)
SummarizeWriteDump ==
    /\ stage = "summarize" /\ pc = "sum_dump"
    /\ snapshots' = [snapshots EXCEPT ![today] = [st |-> "ok", papers |-> today_papers]]
    /\ sumlog' = [sumlog EXCEPT !.wrote = TRUE, !.after = snapshots'[today].papers]
    /\ pc' = "sum_done"
    /\ UNCHANGED <<seen_ids, scores_json, today, runs, stage, outcome, driver,
                   apiKey, limit, locals,
                   pre, loaded, firstScore, calls, prev>>

(* main returns, line 127, and the script started on its own exits 0 *)
SummarizeReturns ==
    /\ stage = "summarize" /\ pc = "sum_done"
    /\ driver = "summarize"
    /\ EndRun("ok")
    /\ UNCHANGED <<durable, today, runs, limit, pre, loaded, firstScore, prev,
                   sumlog>>

(* run(), run_all.py lines 14-16, after summarize.py returned 0: main,     *)
(* line 22                                                                 *)
SummarizeExit ==
    /\ stage = "summarize" /\ pc = "sum_done"
    /\ driver = "run_all"
    /\ stage' = "generate"
    /\ pc' = "gen_main"
    /\ UNCHANGED <<durable, today, runs, outcome, driver, apiKey, limit,
                   locals, history>>

(* -------------------------- generate_pages.py -------------------------- *)
(* main, lines 316-339: reads today's snapshot when it exists (json.load   *)
(* raises on a file that does not parse) and writes the pages.             *)
GeneratePages ==
    /\ stage = "generate" /\ pc = "gen_main"
    /\ EndRun(IF snapshots[today].st = "torn" THEN "failed" ELSE "ok")
    /\ UNCHANGED <<durable, today, runs, limit, pre, loaded, firstScore, prev,
                   sumlog>>

(* ------------------------------- crash --------------------------------- *)
(* The process is killed (power loss, SIGKILL, the job's time limit) at    *)
(* any point of a run; what is on disk stays as it is.                     *)
Crash ==
    /\ stage # "idle"
    /\ EndRun("crashed")
    /\ prev' = NoPrev
    /\ UNCHANGED <<durable, today, runs, limit, pre, loaded, firstScore, sumlog>>

Next ==
    \/ StartFetch
    \/ NextDay
    \/ FetchCandidates
    \/ FetchFails
    \/ LoadState
    \/ ScoreOne
    \/ ScoreEnd
    \/ SaveScoresOpen
    \/ SaveScoresDump
    \/ RankSelect
    \/ SavePapersOpen
    \/ SavePapersDump
    \/ SaveSeenOpen
    \/ SaveSeenDump
    \/ FetchReturns

(* fetch_papers.py started on its own, each run until it returns or raises *)
Spec == Init /\ [][Next]_vars

NextCrash == Next \/ Crash

(* fetch_papers.py started on its own, each run possibly killed at any point *)
SpecCrash == Init /\ [][NextCrash]_vars

NextRunAll ==
    \/ StartRunAll
    \/ NextDay
    \/ FetchCandidates
    \/ FetchFails
    \/ LoadState
    \/ ScoreOne
    \/ ScoreEnd
    \/ SaveScoresOpen
    \/ SaveScoresDump
    \/ RankSelect
    \/ SavePapersOpen
    \/ SavePapersDump
    \/ SaveSeenOpen
    \/ SaveSeenDump
    \/ FetchExit
    \/ SummarizeBegin
    \/ SummarizeOne
    \/ SummarizeWriteOpen
    \/ SummarizeWriteDump
    \/ SummarizeExit
    \/ GeneratePages

(* run_all.py: the three scripts in sequence, each until it returns or raises *)
SpecRunAll == Init /\ [][NextRunAll]_vars

(* ------------------------ the Selector on its own ---------------------- *)
(* main at line 355, about to rank and select: the files hold a ledger of  *)
(* at most one identifier and a cache of any contents, main has loaded     *)
(* them, no client is configured, and the Recency Filter has returned up   *)
(* to SelMaxLen candidates, newest first, one per date, with identifiers   *)
(* that may repeat.                                                        *)
SelIds == 1..SelMaxId
SelLedgers == {{}} \cup {{id} : id \in SelIds}
SelScores == {40, 90}
SelCaches == UNION {[D -> SelScores] : D \in SUBSET SelIds}
SelCandidates ==
    {[k \in 1..Len(ids) |-> Paper(ids[k], SelMaxLen + 1 - k)] :
        ids \in SeqsUpTo(SelIds, SelMaxLen)}

InitSelect ==
    /\ \E L \in SelLedgers :
          /\ seen = L
          /\ seen_ids = IF L = {} THEN AbsentSeen ELSE [st |-> "ok", ids |-> L]
    /\ \E M \in SelCaches :
          /\ scores = M
          /\ scores_json = IF M = EmptyMap THEN AbsentScores
                                           ELSE [st |-> "ok", map |-> M]
    /\ recent \in SelCandidates
    /\ fetched = <<>>
    /\ limit \in QuotaChoices
    /\ snapshots = [d \in Days |-> AbsentSnapshot]
    /\ today = SelMaxLen
    /\ stage = "fetch"
    /\ pc = "rank"
    /\ outcome = "none"
    /\ driver = "fetch_papers"
    /\ runs = 1
    /\ apiKey = FALSE
    /\ i = 1
    /\ new_scores = 0
    /\ today_papers = <<>>
    /\ new_seen = {}
    /\ pre = Durable
    /\ loaded = seen
    /\ firstScore = scores
    /\ calls = <<>>
    /\ prev = NoPrev
    /\ sumlog = NoSumLog

NextSelect == RankSelect

(* lines 355-364 applied to every ledger, cache, candidate list and quota *)
SpecSelect == InitSelect /\ [][NextSelect]_vars

(* ---------------------- the Recency Filter on its own ------------------ *)
(* main at line 317 on a fresh checkout: efetch and filter_recent          *)
InitFilter ==
    /\ seen_ids = AbsentSeen
    /\ scores_json = AbsentScores
    /\ snapshots = [d \in Days |-> AbsentSnapshot]
    /\ today = 1
    /\ stage = "fetch"
    /\ pc = "fetch"
    /\ outcome = "none"
    /\ driver = "fetch_papers"
    /\ runs = 1
    /\ apiKey = FALSE
    /\ limit = 1
    /\ fetched = <<>>
    /\ recent = <<>>
    /\ scores = EmptyMap
    /\ seen = {}
    /\ i = 1
    /\ new_scores = 0
    /\ today_papers = <<>>
    /\ new_seen = {}
    /\ pre = Durable
    /\ loaded = {}
    /\ firstScore = EmptyMap
    /\ calls = <<>>
    /\ prev = NoPrev
    /\ sumlog = NoSumLog

NextFilter == FetchAny

(* lines 320-323 applied to every list of records *)
SpecFilter == InitFilter /\ [][NextFilter]_vars

(* ---------------------- the oracle adapter on its own ------------------ *)
(* main at line 333 with a client, an empty cache and ledger and one       *)
(* candidate: the scoring loop and save_scores, for every response text.   *)
InitOracle ==
    /\ seen_ids = AbsentSeen
    /\ scores_json = AbsentScores
    /\ snapshots = [d \in Days |-> AbsentSnapshot]
    /\ today = 1
    /\ stage = "fetch"
    /\ pc = "score"
    /\ outcome = "none"
    /\ driver = "fetch_papers"
    /\ runs = 1
    /\ apiKey = TRUE
    /\ limit = 1
    /\ fetched = <<>>
    /\ recent = <<Paper(1, today)>>
    /\ scores = EmptyMap
    /\ seen = {}
    /\ i = 1
    /\ new_scores = 0
    /\ today_papers = <<>>
    /\ new_seen = {}
    /\ pre = Durable
    /\ loaded = {}
    /\ firstScore = EmptyMap
    /\ calls = <<>>
    /\ prev = NoPrev
    /\ sumlog = NoSumLog

NextOracle ==
    \/ ScoreAny
    \/ ScoreEnd
    \/ SaveScoresOpen
    \/ SaveScoresDump

(* lines 333-345 applied to every response text *)
SpecOracle == InitOracle /\ [][NextOracle]_vars

(* ---------------------- the summarize stage on its own ----------------- *)
(* summarize.py started by hand, any number of times, on a day whose       *)
(* snapshot a run of fetch_papers.py (and possibly earlier runs of         *)
(* summarize.py) left: up to SumMaxLen selected records, each with the     *)
(* cached score of its identifier, some already summarized.                *)
SumCaches == UNION {[D -> {ScoreMax}] : D \in SUBSET Ids}
SumRecords == {[Paper(id, 1) EXCEPT !.summary = s] : id \in Ids, s \in BOOLEAN}

InitSummarize ==
    /\ \E M \in SumCaches, papers \in SeqsUpTo(SumRecords, SumMaxLen) :
          /\ scores_json = IF M = EmptyMap THEN AbsentScores
                                           ELSE [st |-> "ok", map |-> M]
          /\ firstScore = M
          /\ seen_ids = IF papers = <<>> THEN AbsentSeen
                                         ELSE [st |-> "ok", ids |-> IdsOf(papers)]
          /\ loaded = IdsOf(papers)
          /\ snapshots = [d \in Days |->
                             IF d = 1 THEN [st |-> "ok", papers |-> AttachScores(papers, M)]
                                      ELSE AbsentSnapshot]
    /\ today = 1
    /\ stage = "idle"
    /\ pc = "idle"
    /\ outcome = "ok"
    /\ driver = "none"
    /\ runs = 0
    /\ apiKey = FALSE
    /\ limit = SumMaxLen
    /\ fetched = <<>>
    /\ recent = <<>>
    /\ scores = EmptyMap
    /\ seen = {}
    /\ i = 1
    /\ new_scores = 0
    /\ today_papers = <<>>
    /\ new_seen = {}
    /\ pre = Durable
    /\ calls = <<>>
    /\ prev = NoPrev
    /\ sumlog = NoSumLog

NextSummarize ==
    \/ StartSummarize
    \/ NextDay
    \/ SummarizeBegin
    \/ SummarizeOne
    \/ SummarizeWriteOpen
    \/ SummarizeWriteDump
    \/ SummarizeReturns

(* summarize.py lines 94-127 applied, run after run, to every such snapshot *)
SpecSummarize == InitSummarize /\ [][NextSummarize]_vars

(* ------------------------------ claims --------------------------------- *)
(* what is persisted, as the next load would read it *)
Ledger == load_seen_ids(seen_ids)
Cache == load_scores(scores_json)
SnapshotIds(d) == IF snapshots[d].st = "ok" THEN IdsOf(snapshots[d].papers) ELSE {}
LedgerBefore == load_seen_ids(pre.seen_ids)

(* C1: any two distinct daily snapshots have disjoint identifier sets.     *)
C1_DedupInvariant ==
    \A d1 \in Days : \A d2 \in Days :
        d1 # d2 => SnapshotIds(d1) \cap SnapshotIds(d2) = {}

(* a record published on another date is a candidate again, and the run    *)
(* selected something *)
C1_Witness ==
    /\ stage = "fetch" /\ pc = "save_papers"
    /\ today_papers # <<>>
    /\ \E d \in Days : d # today /\ SnapshotIds(d) \cap IdsOf(recent) # {}

(* C2: the ledger only grows: whenever no commit is in flight, what        *)
(* load_seen_ids() would return contains everything any earlier            *)
(* load_seen_ids() returned.                                               *)
C2_LedgerMonotone ==
    pc # "dump_seen" => loaded \subseteq Ledger

(* a run loaded a non-empty ledger and committed more identifiers to it *)
C2_Witness ==
    /\ stage = "fetch" /\ pc = "fetch_done"
    /\ seen # {}
    /\ new_seen # {}

(* C3: a cache key keeps the value first persisted for it, in the file and *)
(* in the dict of a run that has loaded the file.                          *)
C3_CacheWriteOnce ==
    /\ pc # "dump_scores" =>
         \A id \in DOMAIN firstScore : id \in DOMAIN Cache /\ Cache[id] = firstScore[id]
    /\ (stage = "fetch" /\ pc \in {"score", "save_scores", "dump_scores", "rank"}) =>
         \A id \in DOMAIN firstScore : id \in DOMAIN scores /\ scores[id] = firstScore[id]

(* a run with an oracle met a candidate whose score was cached by an       *)
(* earlier run, scored another one and saved the cache *)
C3_Witness ==
    /\ stage = "fetch" /\ pc = "rank"
    /\ new_scores > 0
    /\ scores_json.st = "ok"
    /\ \E k \in 1..Len(recent) : recent[k].id \in DOMAIN load_scores(pre.scores_json)

(* C4: whenever a run has stopped, completed or killed, every identifier   *)
(* of a persisted snapshot is in the persisted ledger (stated for a valid  *)
(* quota, so that no other defect is involved).                            *)
C4_PublishImpliesRecorded ==
    (stage = "idle" /\ limit >= 1) => \A d \in Days : SnapshotIds(d) \subseteq Ledger

(* C5: after any sequence of runs from an empty ledger, every identifier   *)
(* of the persisted ledger is in some persisted snapshot (stated for a     *)
(* valid quota).                                                           *)
C5_RecordedImpliesPublished ==
    (stage = "idle" /\ limit >= 1) => \A id \in Ledger : \E d \in Days : id \in SnapshotIds(d)

(* C5 as amended: when fetch_papers.main returns, every identifier it      *)
(* added to the persisted ledger is in the snapshot it wrote for its date. *)
C5_RunRecordsWhatItEmits ==
    (stage = "fetch" /\ pc = "fetch_done") =>
        (Ledger \ LedgerBefore) \subseteq SnapshotIds(today)

(* a run that found a non-empty ledger committed new identifiers while a   *)
(* candidate of the ledger was passed over *)
C5_Witness ==
    /\ stage = "fetch" /\ pc = "fetch_done"
    /\ new_seen # {}
    /\ IdsOf(recent) \cap LedgerBefore # {}

(* C6: a run killed during save_seen_ids or save_scores leaves the store   *)
(* with the merged contents or exactly the prior contents (stated for a    *)
(* valid quota).                                                           *)
C6_AtomicCommit ==
    (stage = "idle" /\ outcome = "crashed" /\ limit >= 1) =>
        /\ seen_ids = pre.seen_ids \/ (seen_ids.st = "ok" /\ LedgerBefore \subseteq seen_ids.ids)
        /\ scores_json = pre.scores_json \/ scores_json.st = "ok"

(* C7: a run that finds the ledger or the cache present but invalid stops  *)
(* at the load and writes nothing (stated for a valid quota).              *)
C7_CorruptStoreIsFatal ==
    (limit >= 1 /\ (pre.seen_ids.st = "torn" \/ pre.scores_json.st = "torn")) =>
        /\ stage # "idle" => (stage = "fetch" /\ pc \in {"fetch", "load"})
        /\ stage = "idle" => (outcome # "ok" /\ Durable = pre)

(* C8: a run that ended in failure left the ledger, the cache and the      *)
(* snapshots as they were when it started (stated for a valid quota).      *)
C8_FailedRunLeavesStateUntouched ==
    (stage = "idle" /\ outcome = "failed" /\ limit >= 1) => Durable = pre

(* C9: the selection has at most limit records, and exactly limit when at  *)
(* least limit candidates carry an identifier that is not in the ledger.   *)
UnseenCandidates ==
    Cardinality({k \in 1..Len(recent) : recent[k].id # NoId /\ recent[k].id \notin seen})

C9_QuotaBound ==
    (stage = "fetch" /\ pc = "save_papers") =>
        /\ Len(today_papers) <= limit
        /\ UnseenCandidates >= limit => Len(today_papers) = limit

(* C10: a run whose quota is zero or negative selects nothing and writes   *)
(* neither a snapshot nor the ledger.                                      *)
C10_InvalidQuotaRejected ==
    (stage # "idle" /\ limit <= 0) =>
        /\ today_papers = <<>>
        /\ snapshots = pre.snapshots
        /\ seen_ids = pre.seen_ids

(* this run of the ingest-and-select stage immediately follows a completed *)
(* one that had the same candidates, and has made its selection            *)
SecondOfTwo ==
    /\ stage = "fetch" /\ pc = "save_papers"
    /\ prev.ran
    /\ recent = prev.recent

(* C11: run twice in immediate succession with the same candidates, the    *)
(* second run selects nothing (stated for a valid quota).                  *)
C11_IdempotentRerun ==
    (SecondOfTwo /\ limit >= 1) => today_papers = <<>>

(* C11 as amended: when the candidates are no more than the quota, the     *)
(* first run ledger-accepted every one of them and the second run selects  *)
(* nothing.                                                                *)
C11_RerunWithinQuotaIsEmpty ==
    (SecondOfTwo /\ Len(recent) <= limit) => today_papers = <<>>

(* the second of two such runs had candidates with identifiers, within the *)
(* quota, and selected none of them *)
C11_Witness ==
    /\ SecondOfTwo
    /\ Len(recent) <= limit
    /\ IdsOf(recent) \ {NoId} # {}
    /\ today_papers = <<>>

(* C12: the selection is ordered by effective score (cached score, else 0) *)
(* descending, candidates of equal effective score in their input order;   *)
(* every candidate left out ranks after every selected one and was left    *)
(* out by the quota; and candidates 1(90), 2(90), 3(40) in that order with *)
(* an empty ledger and quota 2 give [1, 2]. The candidates of SpecSelect   *)
(* have strictly decreasing dates, so the later date is the earlier input  *)
(* position.                                                               *)
Eff(p) == IF p.id \in DOMAIN scores THEN scores[p.id] ELSE 0
RanksBefore(p, q) ==
    \/ Eff(p) > Eff(q)
    \/ Eff(p) = Eff(q) /\ p.published > q.published
Eligible(p) == p.id # NoId /\ p.id \notin seen
Dates(papers) == {papers[k].published : k \in 1..Len(papers)}
IdSeq(papers) == [k \in 1..Len(papers) |-> papers[k].id]

C12_StableRanking ==
    (stage = "fetch" /\ pc = "save_papers") =>
        /\ \A a \in 1..Len(today_papers) : \A b \in 1..Len(today_papers) :
              a < b => RanksBefore(today_papers[a], today_papers[b])
        /\ \A a \in 1..Len(today_papers) :
              \E k \in 1..Len(recent) :
                 /\ Eligible(recent[k])
                 /\ recent[k].id = today_papers[a].id
                 /\ recent[k].published = today_papers[a].published
        /\ \A k \in 1..Len(recent) :
              (Eligible(recent[k]) /\ recent[k].published \notin Dates(today_papers)) =>
                 /\ Len(today_papers) >= limit
                 /\ \A a \in 1..Len(today_papers) :
                       RanksBefore(today_papers[a], recent[k])
        /\ (/\ IdSeq(recent) = <<1, 2, 3>>
            /\ scores = (1 :> 90) @@ (2 :> 90) @@ (3 :> 40)
            /\ seen = {}
            /\ limit = 2) => IdSeq(today_papers) = <<1, 2>>

(* the spec's example: 1(90), 2(90), 3(40), empty ledger, quota 2 *)
C12_Witness ==
    /\ stage = "fetch" /\ pc = "save_papers"
    /\ IdSeq(recent) = <<1, 2, 3>>
    /\ scores = (1 :> 90) @@ (2 :> 90) @@ (3 :> 40)
    /\ seen = {}
    /\ limit = 2
    /\ IdSeq(today_papers) = <<1, 2>>

(* C13: no record of the selection carries an identifier of the ledger the *)
(* run loaded, whatever its score, and such candidates use up no quota:    *)
(* the selection is as long as the quota or the unlisted candidates allow. *)
(* With candidate 1 in the ledger at score 99, candidate 2 not in it at    *)
(* score 10 and quota 1, the selection is [2].                             *)
MinOf(a, b) == IF a <= b THEN a ELSE b

C13_LedgerBeatsScore ==
    /\ (stage = "fetch" /\ pc \in {"save_papers", "dump_papers", "save_seen",
                                    "dump_seen", "fetch_done"}) =>
          /\ IdsOf(today_papers) \cap seen = {}
          /\ Len(today_papers) >= MinOf(limit, UnseenCandidates)
    /\ LET cache == (1 :> 99) @@ (2 :> 10)
           cands == <<Paper(1, today), Paper(2, today)>>
       IN select_unseen(Ranked(cands, cache), {1}, 1).selected = <<Paper(2, today)>>

(* a candidate of the ledger with the top score was passed over and the    *)
(* quota of 1 went to an unlisted candidate that ranks below it *)
C13_Witness ==
    /\ stage = "fetch" /\ pc = "save_papers"
    /\ limit = 1
    /\ Len(today_papers) = 1
    /\ \E k \in 1..Len(recent) :
          /\ recent[k].id \in seen
          /\ Eff(recent[k]) = ScoreMax
          /\ Eff(today_papers[1]) < ScoreMax

(* the first well-formed object of a text: the one that starts leftmost *)
ObjectsOf(text) ==
    {ab \in (1..Len(text)) \X (1..Len(text)) :
        ab[1] < ab[2] /\ IsObject(SubSeq(text, ab[1], ab[2]))}
HasObject(text) == ObjectsOf(text) # {}
FirstObject(text) ==
    LET ab == CHOOSE x \in ObjectsOf(text) : \A y \in ObjectsOf(text) : x[1] <= y[1]
    IN SubSeq(text, ab[1], ab[2])

(* a reply that gives a score: the call returned, the text holds an        *)
(* object, and the first one has a "score" member with a number            *)
GivesScore(reply) ==
    /\ reply.ok
    /\ HasObject(reply.content)
    /\ Len(FirstObject(reply.content)) > 2
    /\ ScoreField(FirstObject(reply.content)) # BadValue

(* C14: a candidate whose oracle call failed, or whose response holds no   *)
(* object or an object without a usable score, gets no entry in the Score  *)
(* Cache in this run, neither in main's dict nor in scores.json.           *)
C14_FailureMeansNoScore ==
    stage = "fetch" =>
        \A k \in 1..Len(calls) :
            ~GivesScore(calls[k].reply) =>
                /\ calls[k].id \notin DOMAIN scores
                /\ calls[k].id \notin DOMAIN Cache

(* C15: in a run with an oracle client, every candidate with an identifier *)
(* that had no entry in the cache the run loaded has been submitted to the *)
(* oracle when the scoring loop is over, in the ledger or not; and every   *)
(* identifier whose call gave a score is in main's dict and, once          *)
(* save_scores has run, in scores.json.                                    *)
AfterScoring ==
    {"save_scores", "dump_scores", "rank", "save_papers", "dump_papers",
     "save_seen", "dump_seen", "fetch_done"}
AfterSaveScores == AfterScoring \ {"save_scores", "dump_scores"}
Submitted == {calls[k].id : k \in 1..Len(calls)}

C15_UnscoredIsRetried ==
    (stage = "fetch" /\ apiKey /\ pc \in AfterScoring) =>
        /\ \A id \in IdsOf(recent) \ {NoId} :
              id \notin DOMAIN load_scores(pre.scores_json) => id \in Submitted
        /\ \A k \in 1..Len(calls) :
              score_with_deepseek(calls[k].reply) # None =>
                 /\ calls[k].id \in DOMAIN scores
                 /\ pc \in AfterSaveScores => calls[k].id \in DOMAIN Cache

(* a candidate that the run before submitted without getting a score, and *)
(* that entered the ledger then, was submitted again and now has an entry  *)
C15_Witness ==
    /\ stage = "fetch" /\ apiKey /\ pc = "rank"
    /\ \E id \in prev.unscored \cap seen :
          /\ id \in IdsOf(recent)
          /\ id \in Submitted
          /\ id \in DOMAIN Cache

(* C16: in a run the oracle is never called for an identifier that is a    *)
(* key of the cache, as loaded or as grown by an earlier call of the run,  *)
(* and no identifier is submitted twice.                                   *)
C16_NoResubmission ==
    stage = "fetch" =>
        \A k \in 1..Len(calls) :
            /\ calls[k].id \notin DOMAIN load_scores(pre.scores_json)
            /\ \A j \in 1..(k - 1) :
                  /\ calls[j].id = calls[k].id =>
                        score_with_deepseek(calls[j].reply) = None
                  /\ calls[j].id # calls[k].id

(* the part of C16 the code keeps: no call for a key of the cache *)
C16_NoCallForCachedKey ==
    stage = "fetch" =>
        \A k \in 1..Len(calls) :
            /\ calls[k].id \notin DOMAIN load_scores(pre.scores_json)
            /\ \A j \in 1..(k - 1) :
                  calls[j].id = calls[k].id =>
                        score_with_deepseek(calls[j].reply) = None

(* C17: filter_recent returns exactly the records whose date parses and    *)
(* lies in [now - days, now], newest first, records of equal date in their *)
(* input order.                                                            *)
InWindow(p) ==
    /\ p.published # BadDate
    /\ today - WindowDays <= p.published
    /\ p.published <= today

C17_RecencyFilterResult ==
    (stage = "fetch" /\ pc = "load") =>
        LET wanted == SelectSeq(fetched, InWindow)
        IN recent = SortedDesc(wanted, [k \in 1..Len(wanted) |-> wanted[k].published])

(* C18: a run for date today leaves the snapshot of every other date as it *)
(* was when the run started and deletes none; today's snapshot is as it    *)
(* was until save_papers opens it, and once written it holds exactly the   *)
(* run's selection, nothing of what it or another date's snapshot held.    *)
C18_SnapshotFrame ==
    stage = "fetch" =>
        /\ \A d \in Days : d # today => snapshots[d] = pre.snapshots[d]
        /\ \A d \in Days : pre.snapshots[d].st # "absent" => snapshots[d].st # "absent"
        /\ pc \in {"fetch", "load", "score", "save_scores", "dump_scores", "rank",
                   "save_papers"} => snapshots[today] = pre.snapshots[today]
        /\ pc \in {"save_seen", "dump_seen", "fetch_done"} =>
              snapshots[today] = [st |-> "ok", papers |-> today_papers]

(* a run has written a selection for its date while an earlier date has a  *)
(* snapshot with records in it *)
C18_Witness ==
    /\ stage = "fetch" /\ pc = "fetch_done"
    /\ today_papers # <<>>
    /\ \E d \in Days : d # today /\ SnapshotIds(d) # {}

(* C19: every value of the Score Cache, in scores.json and in main's dict, *)
(* and every score attached to a record of a snapshot is an integer of     *)
(* [0,100]; a candidate for which the oracle wrote a score below 0 is      *)
(* stored with 0, one above 100 with 100.                                  *)
InRange(v) == v \in ScoreMin..ScoreMax

C19_ScoreRange ==
    /\ \A id \in DOMAIN Cache : InRange(Cache[id])
    /\ \A id \in DOMAIN scores : InRange(scores[id])
    /\ \A d \in Days : \A k \in 1..Len(snapshots[d].papers) :
          \/ snapshots[d].papers[k].score = NoScore
          \/ InRange(snapshots[d].papers[k].score)
    /\ \A k \in 1..Len(calls) : \A v \in RawScores :
          calls[k].reply = Content(<<LB, Member(v), RB>>) =>
             /\ calls[k].id \in DOMAIN scores
             /\ v < 0 => scores[calls[k].id] = 0
             /\ v > 100 => scores[calls[k].id] = 100

(* the oracle wrote a score above 100 for a candidate, and the run has     *)
(* cached it and published the candidate with it *)
C19_Witness ==
    /\ stage = "fetch" /\ pc = "fetch_done"
    /\ \E k \in 1..Len(calls) : \E v \in RawScores :
          /\ v > 100
          /\ calls[k].reply = Content(<<LB, Member(v), RB>>)
          /\ Cache[calls[k].id] = 100
          /\ \E n \in 1..Len(snapshots[today].papers) :
                /\ snapshots[today].papers[n].id = calls[k].id
                /\ snapshots[today].papers[n].score = 100

(* C20: whenever the response text holds a well-formed object (here: one   *)
(* whose score field is a number), the candidate is cached with the score  *)
(* of the first such object, whatever stands around it.                    *)
C20_FirstObjectIsParsed ==
    stage = "fetch" =>
        \A k \in 1..Len(calls) :
            GivesScore(calls[k].reply) =>
                /\ calls[k].id \in DOMAIN scores
                /\ scores[calls[k].id] =
                      Clamp(ScoreField(FirstObject(calls[k].reply.content)))

(* ------------------------------- C21 ----------------------------------- *)
Asked == {sumlog.asked[k] : k \in 1..Len(sumlog.asked)}

(* the records of after are those of before, in the same order, with the   *)
(* same scores, and every summary of before is still there                 *)
SameButSummaries(before, after) ==
    /\ Len(after) = Len(before)
    /\ \A k \in 1..Len(before) :
          /\ after[k].id = before[k].id
          /\ after[k].published = before[k].published
          /\ after[k].score = before[k].score
          /\ before[k].summary => after[k].summary

LoopOver == stage = "summarize" /\ pc \in {"sum_loop", "sum_dump", "sum_done"}
               /\ sumlog.date = today /\ i > Len(sumlog.before)

(* C21: an invocation of the summarize stage that gets to its loop leaves  *)
(* the snapshot's records, their order, their scores and the summaries     *)
(* already present as they were, in memory and in the file it writes; a    *)
(* record whose summarization failed has no summary in the file written;   *)
(* no record that had a summary is handed to the summarizer, no record is  *)
(* handed over twice, and when the loop is over every record without a     *)
(* summary has been handed over, those the previous invocation on this     *)
(* same file failed on included.                                          *)
C21_SummarizeOnlyFillsAbsent ==
    /\ stage = "summarize" /\ pc \in {"sum_loop", "sum_dump"}
          => SameButSummaries(sumlog.before, today_papers)
    /\ sumlog.wrote =>
          /\ SameButSummaries(sumlog.before, sumlog.after)
          /\ \A k \in sumlog.failed : ~sumlog.after[k].summary
          /\ \A k \in 1..Len(sumlog.after) :
                sumlog.after[k].summary => sumlog.before[k].summary \/ k \in Asked \ sumlog.failed
    /\ \A k \in Asked : ~sumlog.before[k].summary
    /\ \A a, b \in 1..Len(sumlog.asked) : sumlog.asked[a] = sumlog.asked[b] => a = b
    /\ LoopOver =>
          /\ Asked = {k \in 1..Len(sumlog.before) : ~sumlog.before[k].summary}
          /\ sumlog.retry \subseteq Asked

(* a second invocation has finished its loop over a file in which the      *)
(* first left one record summarized and failed on another: it asked for    *)
(* the failed one again and passed over the summarized one                 *)
C21_Witness ==
    /\ LoopOver
    /\ runs = 2
    /\ sumlog.retry # {}
    /\ \E k \in 1..Len(sumlog.before) : sumlog.before[k].summary /\ k \notin Asked
    /\ Len(sumlog.before) = 2

(* ------------------------------- C22 ----------------------------------- *)
(* the Recency Filter returned nothing, or only records whose identifier   *)
(* the persisted ledger already lists                                      *)
EmptyCandidateSet == \A k \in 1..Len(recent) : recent[k].id \in LedgerBefore

(* C22: in a run whose Recency Filter returns no candidate, or only        *)
(* candidates the ledger lists, nothing is selected, the run gets to its   *)
(* end without failing, today's snapshot is written empty, and the ledger  *)
(* file is never opened for writing: it is as the run found it.            *)
C22_EmptyCandidateSet ==
    stage = "fetch" /\ pc \notin {"fetch", "load"} /\ EmptyCandidateSet =>
        /\ outcome # "failed"
        /\ seen_ids = pre.seen_ids
        /\ pc \notin {"save_seen", "dump_seen"}
        /\ pc \in {"save_papers", "dump_papers", "fetch_done"} =>
              today_papers = <<>> /\ new_seen = {}
        /\ pc = "fetch_done" => snapshots[today] = [st |-> "ok", papers |-> <<>>]

(* a second run on the same day is about to return: its candidates are all *)
(* in the ledger, and the snapshot the first run wrote has been replaced   *)
(* by an empty one                                                         *)
C22_Witness ==
    /\ stage = "fetch" /\ pc = "fetch_done"
    /\ recent # <<>>
    /\ EmptyCandidateSet
    /\ limit >= 1
    /\ pre.snapshots[today].st = "ok" /\ pre.snapshots[today].papers # <<>>
    /\ snapshots[today] = [st |-> "ok", papers |-> <<>>]

(* ------------------------------- C23 ----------------------------------- *)
(* the orders in which the records of a list can be taken *)
Orders(n) == {f \in [1..n -> 1..n] : \A a, b \in 1..n : f[a] = f[b] => a = b}
InOrder(papers, f) == [k \in 1..Len(papers) |-> papers[f[k]]]

(* the oracles that answer one fixed way per document, and those of them   *)
(* that answered this run's calls                                          *)
FixedOracles == [Ids -> OracleReplies]
Answered(oracle) == \A k \in 1..Len(calls) : calls[k].reply = oracle[calls[k].id]

CacheLoaded == load_scores(pre.scores_json)

(* C23: when the oracle answers one fixed way per document, the cache the  *)
(* scoring loop ends with is the cache the loop would end with had it      *)
(* taken the candidates in any other order, and the snapshot selected from *)
(* it is the snapshot any such order selects.                              *)
C23_OrderIndependent ==
    stage = "fetch" /\ pc \in AfterScoring /\ apiKey =>
        \A oracle \in FixedOracles : Answered(oracle) =>
            \A f \in Orders(Len(recent)) :
                LET cache == ScoringPass(InOrder(recent, f), 1, CacheLoaded, oracle)
                    r == select_unseen(Ranked(recent, cache), seen, limit)
                IN /\ cache = scores
                   /\ pc \in AfterSaveScores \ {"rank"} =>
                         today_papers = AttachScores(r.selected, cache)

(* two uncached candidates were scored, one call failing and one giving a  *)
(* score, and the selection has been made                                  *)
C23_Witness ==
    /\ stage = "fetch" /\ pc = "save_papers"
    /\ Len(calls) = 2
    /\ calls[1].id # calls[2].id
    /\ score_with_deepseek(calls[1].reply) = None
    /\ score_with_deepseek(calls[2].reply) # None
    /\ today_papers # <<>>

(* ------------------------------- C24 ----------------------------------- *)
Selected == pc \in {"save_papers", "dump_papers", "save_seen", "dump_seen", "fetch_done"}

NoRepeat(papers) ==
    \A a, b \in 1..Len(papers) : papers[a].id = papers[b].id => a = b

(* C24: whatever list and ledger select_unseen was given, the records it   *)
(* selected carry pairwise distinct identifiers, the set of new            *)
(* identifiers it returned has as many members as the selection has        *)
(* records, and no selected record lacks an identifier.                    *)
C24_NoRepeatInSnapshot ==
    stage = "fetch" /\ Selected =>
        /\ NoRepeat(today_papers)
        /\ Cardinality(new_seen) = Len(today_papers)
        /\ \A k \in 1..Len(today_papers) : today_papers[k].id # NoId

(* C24, the part the code keeps: the same, for a candidate list that does  *)
(* not repeat an identifier                                                *)
C24_NoRepeatWhenInputHasNone ==
    stage = "fetch" /\ Selected =>
        /\ \A k \in 1..Len(today_papers) : today_papers[k].id # NoId
        /\ IdsOf(today_papers) = new_seen
        /\ NoRepeat(recent) =>
              NoRepeat(today_papers) /\ Cardinality(new_seen) = Len(today_papers)

(* ------------------------------- C25 ----------------------------------- *)
(* the script of a stage has returned: exit code 0 *)
ExitedZero ==
    \/ stage = "fetch" /\ pc = "fetch_done"
    \/ stage = "summarize" /\ pc = "sum_done"

(* C25: run_all starts with ingest-and-select; summarize starts only from  *)
(* an ingest-and-select that returned, generate-pages only from a          *)
(* summarize that returned, each at its first statement; a stage that ends *)
(* any other way ends run_all at once with a failure, so that no later     *)
(* stage of that invocation runs, and run_all succeeds only from           *)
(* generate-pages.                                                         *)
C25_StageOrder ==
    [][ /\ stage' # stage =>
              \/ stage = "idle" /\ stage' = "fetch" /\ pc' = "fetch"
                    /\ runs' = runs + 1
              \/ stage = "fetch" /\ stage' = "summarize" /\ ExitedZero
                    /\ pc' = "sum_main" /\ runs' = runs
              \/ stage = "summarize" /\ stage' = "generate" /\ ExitedZero
                    /\ pc' = "gen_main" /\ runs' = runs
              \/ stage # "idle" /\ stage' = "idle"
        /\ stage \in {"fetch", "summarize"} /\ stage' = "idle" =>
              ~ExitedZero /\ outcome' = "failed"
        /\ ExitedZero => stage' # "idle" /\ outcome' # "failed"
        /\ outcome' = "ok" /\ outcome # "ok" => stage = "generate" /\ stage' = "idle"
      ]_vars

(* the first run_all has ended with a failure after its ingest-and-select  *)
(* published a snapshot: summarize.py raised for want of an API key, and   *)
(* generate_pages.py was not started                                       *)
C25_Witness ==
    /\ stage = "idle"
    /\ runs = 1
    /\ outcome = "failed"
    /\ snapshots[today].st = "ok"
    /\ snapshots[today].papers # <<>>

=============================================================================
